---------------------------- MODULE Spec2Model ----------------------------
(* A model of cdeps (src/cdeps.py): pairing of C/C++ sources with headers, *)
(* mapping of #include dependencies, search-path resolution of quoted      *)
(* includes, and the fixpoint that partitions units into impacted and      *)
(* unimpacted.                                                             *)
(*                                                                         *)
(* Python str values that the code takes apart (paths, include names) are  *)
(* sequences of one-character strings; identifiers that the code only      *)
(* compares (the keys and members of a dependency map handed to            *)
(* get_dependent_units) are TLA+ strings.                                  *)
EXTENDS Integers, Sequences, FiniteSets, TLC

VARIABLES
    \* ---- get_dependent_units --------------------------------------------
    units,            \* the dependency map: unit -> set of dependencies
    dependencies,     \* the seed set handed to the running call
    impacted,         \* local `impacted`
    previous_length,  \* local `previous_length`
    unimpacted,       \* local `unimpacted` (set on return)
    pc,               \* position of the running operation
    run,              \* 1: the call on the seeds, 2: the call on its own result
    first,            \* what the first call returned
    passes,           \* number of executions of the loop body in this call
    idle,             \* number of those that added no name
    \* ---- pair_sources_with_headers / map_dependencies_from_pairs --------
    sources,          \* argument `sources`
    headers,          \* argument `headers`
    todo,             \* elements the running for-loop has not visited yet
    pairs,            \* local `pairs` (then the argument of the mapping)
    include_dirs,     \* argument `include_dirs`
    warnings,         \* include names reported by `print('warning:', exc)`
    resolved,         \* arguments and outcome of the latest direct resolve call
    clean_units       \* the map the same pass builds when the includes that
                      \* resolve nowhere are taken out of the files

ivars == <<units, dependencies, impacted, previous_length, unimpacted, run,
           first, passes, idle>>
pvars == <<sources, headers, todo, pairs, include_dirs, warnings, resolved,
           clean_units>>
vars == <<ivars, pvars, pc>>

(***************************************************************************)
(* Bounds                                                                  *)
(***************************************************************************)
MaxDeps == 2      \* most dependencies one unit of a generated map holds
MaxSeeds == 2     \* most seeds handed to get_dependent_units

(***************************************************************************)
(* get_dependent_units                                                     *)
(***************************************************************************)
UnitNames == {"main", "a", "b"}
Names == UnitNames \cup {"stdio"}

Bounded(S, n) == {T \in SUBSET S : Cardinality(T) <= n}

\* Every map whose keys are unit names and whose values are sets of names.
DependencyMaps ==
    UNION {[K -> Bounded(Names, MaxDeps)] : K \in SUBSET UnitNames}

\* impacted = dependencies.copy()
CopySeeds(deps) == deps

\* while len(impacted) > previous_length
\* (faulty variant: the body runs once at most)
LoopCondOnce(imp, prev) == prev = 0 /\ Cardinality(imp) > 0
LoopCond(imp, prev) == Cardinality(imp) > prev

\* set(unit for unit, deps in units.items() if deps.intersection(impacted))
\* (faulty variants: issubset for intersection; the test negated)
FoundSubset(u, imp) == {unit \in DOMAIN u : u[unit] # {} /\ u[unit] \subseteq imp}
FoundDisjoint(u, imp) == {unit \in DOMAIN u : u[unit] \cap imp = {}}
Found(u, imp) == {unit \in DOMAIN u : u[unit] \cap imp # {}}

\* impacted.update(found)
\* (faulty variant: assignment for update)
UpdateReplace(imp, found) == found
Update(imp, found) == imp \cup found

\* impacted.intersection_update(units_set)
\* (faulty variant: the seeds that are no units stay)
IntersectionSkipped(imp, units_set) == imp
IntersectionUpdate(imp, units_set) == imp \cap units_set

\* unimpacted = units_set - impacted
Difference(units_set, imp) == units_set \ imp

\* Nothing returned yet.
NoResult == [impacted |-> {}, unimpacted |-> {}]

InitImpactVars ==
    /\ units \in DependencyMaps
    /\ dependencies \in Bounded(Names, MaxSeeds)
    /\ impacted = CopySeeds(dependencies)
    /\ previous_length = 0
    /\ unimpacted = {}
    /\ run = 1
    /\ first = NoResult
    /\ passes = 0
    /\ idle = 0

IdleImpactVars ==
    /\ units = <<>>
    /\ dependencies = {}
    /\ impacted = {}
    /\ previous_length = 0
    /\ unimpacted = {}
    /\ run = 0
    /\ first = NoResult
    /\ passes = 0
    /\ idle = 0

\* One execution of the body of the while loop.
LoopPass ==
    /\ pc = "loop"
    /\ LoopCond(impacted, previous_length)
    /\ previous_length' = Cardinality(impacted)
    /\ impacted' = Update(impacted, Found(units, impacted))
    /\ passes' = passes + 1
    /\ idle' = IF impacted' = impacted THEN idle + 1 ELSE idle
    /\ UNCHANGED <<units, dependencies, unimpacted, run, first, pc, pvars>>

\* The loop condition fails: intersect with the keys, take the rest, return.
LoopExit ==
    /\ pc = "loop"
    /\ ~LoopCond(impacted, previous_length)
    /\ LET units_set == DOMAIN units
           result == IntersectionUpdate(impacted, units_set)
       IN /\ impacted' = result
          /\ unimpacted' = Difference(units_set, result)
          /\ first' = IF run = 1
                      THEN [impacted |-> result,
                            unimpacted |-> Difference(units_set, result)]
                      ELSE first
    /\ pc' = "done"
    /\ UNCHANGED <<units, dependencies, previous_length, run, passes, idle, pvars>>

\* get_dependent_units(units, I) where I is the impacted set just returned.
Rerun ==
    /\ pc = "done"
    /\ run = 1
    /\ run' = 2
    /\ dependencies' = impacted
    /\ impacted' = CopySeeds(impacted)
    /\ previous_length' = 0
    /\ unimpacted' = {}
    /\ passes' = 0
    /\ idle' = 0
    /\ pc' = "loop"
    /\ UNCHANGED <<units, first, pvars>>

(***************************************************************************)
(* Paths: os.path (posixpath) and the extension helpers                    *)
(***************************************************************************)
\* No path: Python's None in SourcePair.source / SourcePair.header and in the
\* result of find_corresponding_pair (the code tests it for truth, and no
\* path of the model is the empty string).
NoPath == <<>>

SOURCE_EXTENSIONS ==
    <<<<".", "c">>,
      <<".", "c", "c">>,
      <<".", "c", "p">>,
      <<".", "c", "x", "x">>,
      <<".", "c", "p", "p">>,
      <<".", "c", "+", "+">>,
      <<".", "C">>>>
HEADER_EXTENSIONS == <<<<".", "h">>, <<".", "h", "p", "p">>>>

\* str.endswith
EndsWith(path, ext) ==
    /\ Len(ext) <= Len(path)
    /\ SubSeq(path, Len(path) - Len(ext) + 1, Len(path)) = ext

\* str.rfind, counting from 1 (0 when the character does not occur)
RFind(path, ch) ==
    LET at == {i \in 1..Len(path) : path[i] = ch}
    IN IF at = {} THEN 0 ELSE CHOOSE i \in at : \A j \in at : j <= i

has_extension(path, extensions) ==
    \E i \in 1..Len(extensions) : EndsWith(path, extensions[i])

is_source(path) == has_extension(path, SOURCE_EXTENSIONS)
is_header(path) == has_extension(path, HEADER_EXTENSIONS)

\* os.path.splitext(path)[0]: cut at the last dot of the last component,
\* unless only dots precede it there.
remove_extension(path) ==
    LET sepIndex == RFind(path, "/")
        dotIndex == RFind(path, ".")
    IN IF /\ dotIndex > sepIndex
          /\ \E i \in (sepIndex + 1)..(dotIndex - 1) : path[i] # "."
       THEN SubSeq(path, 1, dotIndex - 1)
       ELSE path

AllSlashes(path) == \A i \in 1..Len(path) : path[i] = "/"

RECURSIVE RStripSlashes(_)
RStripSlashes(path) ==
    IF path # <<>> /\ path[Len(path)] = "/"
    THEN RStripSlashes(SubSeq(path, 1, Len(path) - 1))
    ELSE path

\* os.path.dirname
dirname(path) ==
    LET head == SubSeq(path, 1, RFind(path, "/"))
    IN IF head # <<>> /\ ~AllSlashes(head) THEN RStripSlashes(head) ELSE head

\* os.path.join(a, b)
join(a, b) ==
    IF b # <<>> /\ b[1] = "/" THEN b
    ELSE IF a = <<>> \/ a[Len(a)] = "/" THEN a \o b
    ELSE a \o <<"/">> \o b

\* str.split('/')
RECURSIVE SplitAcc(_, _, _, _)
SplitAcc(path, i, cur, acc) ==
    IF i > Len(path) THEN Append(acc, cur)
    ELSE IF path[i] = "/" THEN SplitAcc(path, i + 1, <<>>, Append(acc, cur))
    ELSE SplitAcc(path, i + 1, Append(cur, path[i]), acc)

Split(path) == SplitAcc(path, 1, <<>>, <<>>)

\* The loop of os.path.normpath over the components.
RECURSIVE NormAcc(_, _, _, _)
NormAcc(comps, i, new, initial_slashes) ==
    IF i > Len(comps) THEN new
    ELSE LET comp == comps[i]
         IN IF comp = <<>> \/ comp = <<".">>
            THEN NormAcc(comps, i + 1, new, initial_slashes)
            ELSE IF \/ comp # <<".", ".">>
                    \/ (initial_slashes = 0 /\ new = <<>>)
                    \/ (new # <<>> /\ new[Len(new)] = <<".", ".">>)
            THEN NormAcc(comps, i + 1, Append(new, comp), initial_slashes)
            ELSE IF new # <<>>
            THEN NormAcc(comps, i + 1, SubSeq(new, 1, Len(new) - 1), initial_slashes)
            ELSE NormAcc(comps, i + 1, new, initial_slashes)

\* '/'.join(comps)
RECURSIVE JoinComps(_)
JoinComps(comps) ==
    IF comps = <<>> THEN <<>>
    ELSE IF Len(comps) = 1 THEN comps[1]
    ELSE comps[1] \o <<"/">> \o JoinComps(Tail(comps))

\* os.path.normpath
normpath(path) ==
    IF path = <<>> THEN <<".">>
    ELSE LET initial_slashes ==
                 IF path[1] # "/" THEN 0
                 ELSE IF /\ Len(path) >= 2 /\ path[2] = "/"
                         /\ ~(Len(path) >= 3 /\ path[3] = "/")
                 THEN 2
                 ELSE 1
             new == NormAcc(Split(path), 1, <<>>, initial_slashes)
             slashes == [i \in 1..initial_slashes |-> "/"]
             out == slashes \o JoinComps(new)
         IN IF out = <<>> THEN <<".">> ELSE out

\* os.getcwd()
Cwd == <<"/", "w">>

\* os.path.abspath
abspath(path) ==
    IF path # <<>> /\ path[1] = "/" THEN normpath(path)
    ELSE normpath(join(Cwd, path))

\* The files and directories that exist (what os.path.exists answers for).
FS ==
    {<<"/">>,
     <<"/", "w">>,
     <<"/", "w", "/", "a", ".", "c">>,
     <<"/", "w", "/", "a", ".", "c", "p", "p">>,
     <<"/", "w", "/", "a", ".", "h">>,
     <<"/", "w", "/", "a", ".", "h", "p", "p">>,
     <<"/", "w", "/", "m", ".", "c">>,
     <<"/", "w", "/", "s">>,
     <<"/", "w", "/", "s", "/", "b", ".", "c">>,
     <<"/", "w", "/", "s", "/", "b", ".", "h">>,
     <<"/", "w", "/", "s", "/", "k", ".", "h">>,
     <<"/", "w", "/", "i">>,
     <<"/", "w", "/", "i", "/", "b", ".", "h">>,
     <<"/", "w", "/", "i", "/", "k", ".", "h">>}

exists(path) == path \in FS

\* No direct call of resolve_include_path yet.
NoCall ==
    [name |-> <<>>, current_dir |-> <<>>, include_dirs |-> <<>>,
     outcome |-> [raised |-> FALSE, path |-> <<>>]]

IdlePairVars ==
    /\ sources = {}
    /\ headers = {}
    /\ todo = {}
    /\ pairs = {}
    /\ include_dirs = <<>>
    /\ warnings = {}
    /\ resolved = NoCall
    /\ clean_units = <<>>

ImpactInit == InitImpactVars /\ IdlePairVars /\ pc = "loop"
ImpactNext == LoopPass \/ LoopExit \/ Rerun
ImpactSpec == ImpactInit /\ [][ImpactNext]_vars
\* The interpreter runs the call to completion: every enabled step is taken.
ImpactFairSpec == ImpactSpec /\ WF_vars(ImpactNext)

(***************************************************************************)
(* SourcePair, pair_sources_with_headers                                   *)
(***************************************************************************)
SourcePair(source, header) == [source |-> source, header |-> header]

\* The pair with neither member, which __init__ refuses to build: it stands
\* for "no pair yet" only.
NoPair == SourcePair(NoPath, NoPath)

has_source(pair) == pair.source # NoPath
has_header(pair) == pair.header # NoPath

\* SourcePair.name
name(pair) ==
    IF has_source(pair) THEN remove_extension(pair.source)
    ELSE remove_extension(pair.header)

RECURSIVE FindFrom(_, _, _, _)
FindFrom(stem, candidates, extensions, i) ==
    IF i > Len(extensions) THEN NoPath
    ELSE IF (stem \o extensions[i]) \in candidates THEN stem \o extensions[i]
    ELSE FindFrom(stem, candidates, extensions, i + 1)

find_corresponding_pair(path, candidates, extensions) ==
    FindFrom(remove_extension(path), candidates, extensions, 1)

find_corresponding_source(path, candidates) ==
    find_corresponding_pair(path, candidates, SOURCE_EXTENSIONS)
find_corresponding_header(path, candidates) ==
    find_corresponding_pair(path, candidates, HEADER_EXTENSIONS)

\* Paths a caller may hand over as sources and as headers: files of FS,
\* absolute as get_sources_and_headers_from_dir yields them, or relative to
\* the working directory as in the docstrings.
SourcePaths ==
    {p \in {<<"a", ".", "c">>, <<"a", ".", "c", "p", "p">>,
            <<"/", "w", "/", "s", "/", "b", ".", "c">>} : is_source(p)}
HeaderPaths ==
    {p \in {<<"a", ".", "h">>, <<"/", "w", "/", "s", "/", "b", ".", "h">>} :
        is_header(p) /\ ~is_source(p)}

MaxSources == 2   \* most paths in `sources`
MaxHeaders == 1   \* most paths in `headers`
MaxLines == 1     \* most distinct lines with an #include in one file

\* The values of include_dirs that are tried.
IncludeDirChoices ==
    {<<>>, <<<<"s">>, <<"/", "w", "/", "i">>>>, <<<<"/", "w", "/", "i">>, <<"/", "w", "/", "s">>>>}

\* for source in sources: (one iteration)
PairSource ==
    /\ pc = "pair_sources"
    /\ \E source \in todo :
          LET header == find_corresponding_header(source, headers)
          IN /\ pairs' = pairs \cup {IF header # NoPath
                                     THEN SourcePair(source, header)
                                     ELSE SourcePair(source, NoPath)}
             /\ todo' = todo \ {source}
    /\ UNCHANGED <<ivars, pc, sources, headers, include_dirs, warnings,
                   resolved, clean_units>>

\* The first loop is over; the second one starts.
SourcesDone ==
    /\ pc = "pair_sources"
    /\ todo = {}
    /\ todo' = headers
    /\ pc' = "pair_headers"
    /\ UNCHANGED <<ivars, sources, headers, pairs, include_dirs,
                   warnings, resolved, clean_units>>

\* for header in headers: (one iteration)
PairHeader ==
    /\ pc = "pair_headers"
    /\ \E header \in todo :
          /\ pairs' = IF find_corresponding_source(header, sources) = NoPath
                      THEN pairs \cup {SourcePair(NoPath, header)}
                      ELSE pairs
          /\ todo' = todo \ {header}
    /\ UNCHANGED <<ivars, pc, sources, headers, include_dirs, warnings,
                   resolved, clean_units>>

\* return pairs; the pairs go to map_dependencies_from_pairs.
PairReturn ==
    /\ pc = "pair_headers"
    /\ todo = {}
    /\ todo' = pairs
    /\ pc' = "map"
    /\ UNCHANGED <<ivars, sources, headers, pairs, include_dirs,
                   warnings, resolved, clean_units>>

(***************************************************************************)
(* get_dependencies_from_file, resolve_include_path,                       *)
(* map_dependencies_from_pairs                                             *)
(***************************************************************************)
\* What the two regular expressions capture on one line: the text between
\* the quotes and the text between the angle brackets, each if it matches.
QuotedNames == {<<"b", ".", "h">>, <<"v", "o", "i", "d", ".", "h">>, <<"a", ".", "h">>}
AngleNames == {<<"s", "t", "d", "i", "o", ".", "h">>, <<"a", ".", "h">>}

Lines ==
    {[quoted |-> {q}, angle |-> {}] : q \in QuotedNames}
        \cup {[quoted |-> {}, angle |-> {a}] : a \in AngleNames}

\* A file, as the set of its lines that hold an #include: the scan keeps
\* neither their order nor their number.
Contents == Bounded(Lines, MaxLines)

get_dependencies_from_file(lines) ==
    [internal |-> UNION {l.quoted : l \in lines},
     external |-> UNION {l.angle : l \in lines}]

\* SourcePair._resolve_dependencies over what the two files hold.
internal_dependencies(pair, read) ==
    (IF has_source(pair) THEN get_dependencies_from_file(read.source).internal ELSE {})
        \cup (IF has_header(pair) THEN get_dependencies_from_file(read.header).internal ELSE {})

external_dependencies(pair, read) ==
    (IF has_source(pair) THEN get_dependencies_from_file(read.source).external ELSE {})
        \cup (IF has_header(pair) THEN get_dependencies_from_file(read.header).external ELSE {})

\* raise FileNotFoundError(...)
NotFound == [raised |-> TRUE, path |-> NoPath]

\* for include_dir in include_dirs: ... if os.path.exists(path): return path
RECURSIVE FirstExisting(_, _, _)
FirstExisting(include_name, dirs, i) ==
    IF i > Len(dirs) THEN NotFound
    ELSE LET path == normpath(join(dirs[i], include_name))
         IN IF exists(path) THEN [raised |-> FALSE, path |-> path]
            ELSE FirstExisting(include_name, dirs, i + 1)

AbsDirs(dirs) == [i \in 1..Len(dirs) |-> abspath(dirs[i])]

\* (faulty variant: include_dirs searched before current_dir)
resolve_include_dirs_first(include_name, current_dir, dirs) ==
    FirstExisting(include_name, AbsDirs(dirs \o <<current_dir>>), 1)

resolve_include_path(include_name, current_dir, dirs) ==
    FirstExisting(include_name, AbsDirs(<<current_dir>> \o dirs), 1)

\* The directories map_dependencies_from_pairs resolves from.
CurrentDirs == {dirname(remove_extension(p)) : p \in SourcePaths \cup HeaderPaths}

\* resolve_include_path, tabulated once over the arguments the mapping
\* hands it.
Resolved ==
    [n \in QuotedNames, d \in CurrentDirs, dirs \in IncludeDirChoices |->
        resolve_include_path(n, d, dirs)]

\* except FileNotFoundError as exc: print('warning:', exc); continue
\* (faulty variant: no handler, the exception leaves the loop)
OnFileNotFoundRaise(dependency) ==
    [aborted |-> TRUE, warned |-> {}, added |-> {}]
OnFileNotFound(dependency) ==
    [aborted |-> FALSE, warned |-> {dependency}, added |-> {}]

\* One iteration of `for dependency in pair.internal_dependencies`.
InternalStep(dependency, unit, current_dir, dirs) ==
    LET outcome == Resolved[dependency, current_dir, dirs]
    IN IF outcome.raised THEN OnFileNotFound(dependency)
       ELSE [aborted |-> FALSE,
             warned |-> {},
             added |-> IF unit # remove_extension(outcome.path)
                       THEN {remove_extension(outcome.path)}
                       ELSE {}]

\* One iteration of `for pair in pairs`, given what the pair's files hold.
PairDependencies(pair, read, dirs) ==
    LET unit == name(pair)
        current_dir == dirname(unit)
        steps == {InternalStep(d, unit, current_dir, dirs) :
                      d \in internal_dependencies(pair, read)}
    IN [aborted |-> \E s \in steps : s.aborted,
        warned |-> UNION {s.warned : s \in steps},
        deps |-> UNION {s.added : s \in steps}
                     \cup {remove_extension(d) :
                               d \in external_dependencies(pair, read)}]

\* units[unit] = dependencies
Store(map, unit, deps) ==
    [u \in DOMAIN map \cup {unit} |-> IF u = unit THEN deps ELSE map[u]]

\* The files of the pair with the quoted includes that resolve nowhere
\* taken out.
WithoutUnresolved(pair, read, dirs) ==
    LET gone == {d \in QuotedNames :
                     Resolved[d, dirname(name(pair)), dirs].raised}
        strip(lines) == {[quoted |-> l.quoted \ gone, angle |-> l.angle] : l \in lines}
    IN [source |-> strip(read.source), header |-> strip(read.header)]

MapPair ==
    /\ pc = "map"
    /\ \E pair \in todo :
        \E src \in (IF has_source(pair) THEN Contents ELSE {{}}),
           hdr \in (IF has_header(pair) THEN Contents ELSE {{}}) :
          /\ LET read == [source |-> src, header |-> hdr]
                 got == PairDependencies(pair, read, include_dirs)
                 clean == PairDependencies(
                              pair, WithoutUnresolved(pair, read, include_dirs),
                              include_dirs)
             IN /\ todo' = todo \ {pair}
                /\ clean_units' = Store(clean_units, name(pair), clean.deps)
                /\ IF got.aborted
                   THEN /\ pc' = "aborted"
                        /\ UNCHANGED <<units, warnings>>
                   ELSE /\ pc' = pc
                        /\ units' = Store(units, name(pair), got.deps)
                        /\ warnings' = warnings \cup got.warned
    /\ UNCHANGED <<dependencies, impacted, previous_length, unimpacted, run,
                   first, passes, idle, sources, headers, pairs, include_dirs,
                   resolved>>

\* return units
MapReturn ==
    /\ pc = "map"
    /\ todo = {}
    /\ pc' = "mapped"
    /\ UNCHANGED <<ivars, pvars>>

PairInit ==
    /\ IdleImpactVars
    /\ sources \in Bounded(SourcePaths, MaxSources)
    /\ headers \in Bounded(HeaderPaths, MaxHeaders)
    /\ include_dirs \in IncludeDirChoices
    /\ todo = sources
    /\ pairs = {}
    /\ warnings = {}
    /\ resolved = NoCall
    /\ clean_units = <<>>
    /\ pc = "pair_sources"

PairNext ==
    PairSource \/ SourcesDone \/ PairHeader \/ PairReturn \/ MapPair \/ MapReturn
PairSpec == PairInit /\ [][PairNext]_vars

(***************************************************************************)
(* Direct calls of resolve_include_path                                    *)
(***************************************************************************)
ResolveNames ==
    QuotedNames \cup {<<"k", ".", "h">>, <<"s", "/", "b", ".", "h">>, <<".", ".", "/", "a", ".", "h">>, <<>>,
                     <<"/", "w", "/", "a", ".", "h">>}
ResolveDirs ==
    {<<>>, <<"/", "w">>, <<"/", "w", "/", "s">>, <<"s">>, <<"/", "w", "/", "i">>, <<"/", "w", "/", "t">>}

ResolveCall ==
    /\ pc \in {"start", "resolved"}
    /\ \E n \in ResolveNames, d \in ResolveDirs, dirs \in IncludeDirChoices :
          resolved' = [name |-> n, current_dir |-> d, include_dirs |-> dirs,
                       outcome |-> resolve_include_path(n, d, dirs)]
    /\ pc' = "resolved"
    /\ UNCHANGED <<ivars, sources, headers, todo, pairs, include_dirs,
                   warnings, clean_units>>

ResolveInit == IdleImpactVars /\ IdlePairVars /\ pc = "start"
ResolveNext == ResolveCall
ResolveSpec == ResolveInit /\ [][ResolveNext]_vars

(***************************************************************************)
(* Properties of get_dependent_units                                       *)
(***************************************************************************)
Keys == DOMAIN units
Returned == pc = "done" /\ run \in {1, 2}

\* Names reachable from the names in `frontier` along dependency edges.
RECURSIVE Reach(_, _)
Reach(frontier, seen) ==
    LET next == UNION {units[u] : u \in frontier \cap Keys} \ seen
    IN IF next = {} THEN seen ELSE Reach(next, seen \cup next)

\* The names a unit depends on, directly or through other units.
DependsOn(u) == Reach({u}, {})

\* C1: whatever the map and the seeds (seeds that are no keys, cyclic maps),
\* the two returned sets cover exactly the keys of the map and share nothing.
C1_Partition ==
    Returned => /\ impacted \cup unimpacted = Keys
                /\ impacted \cap unimpacted = {}

C1_Witness ==
    /\ Returned
    /\ dependencies \ Keys # {}
    /\ impacted # {}
    /\ unimpacted # {}
    /\ \E u \in Keys : u \in DependsOn(u)

\* C2: a key is returned as impacted exactly when it is a seed or depends,
\* through a chain of keys, on a seed; every other key is unimpacted.
C2_Closure ==
    Returned =>
        /\ impacted = {u \in Keys : u \in dependencies
                                    \/ DependsOn(u) \cap dependencies # {}}
        /\ unimpacted = {u \in Keys : /\ u \notin dependencies
                                      /\ DependsOn(u) \cap dependencies = {}}

C2_Witness ==
    /\ Returned
    /\ run = 1
    /\ unimpacted # {}
    /\ \E u \in impacted : /\ u \notin dependencies
                           /\ units[u] \cap dependencies = {}

SeedsMeetNoDependency == \A u \in Keys : units[u] \cap dependencies = {}

\* C3 as stated: seeds that meet no unit's dependencies leave impacted empty.
C3_Original ==
    (Returned /\ SeedsMeetNoDependency) =>
        /\ impacted = {}
        /\ unimpacted = Keys

\* C3, amended: seeds that meet no unit's dependencies impact exactly the
\* seeds that are themselves units; every other unit is unimpacted.
C3_SeedsOnly ==
    (Returned /\ SeedsMeetNoDependency) =>
        /\ impacted = dependencies \cap Keys
        /\ unimpacted = Keys \ dependencies

C3_Witness ==
    /\ Returned
    /\ run = 1
    /\ SeedsMeetNoDependency
    /\ passes = 1
    /\ dependencies \cap Keys # {}
    /\ dependencies \ Keys # {}
    /\ \E u \in Keys : units[u] # {}

\* C8: calling get_dependent_units again with the impacted set it returned
\* as the seeds returns the same impacted and unimpacted sets.
C8_Idempotent ==
    (pc = "done" /\ run = 2) =>
        /\ impacted = first.impacted
        /\ unimpacted = first.unimpacted

C8_Witness ==
    /\ pc = "done"
    /\ run = 2
    /\ passes >= 1
    /\ Cardinality(first.impacted) >= 2
    /\ first.unimpacted # {}

\* C10: the loop always ends; between passes the impacted set only grows,
\* it never leaves seeds \cup keys, and the only pass that adds no name is
\* the last one.
C10_Terminates ==
    /\ [][(pc = "loop" /\ pc' = "loop") => impacted \subseteq impacted']_vars
    /\ [](pc = "loop" => impacted \subseteq dependencies \cup Keys)
    /\ [](idle <= 1 /\ passes <= Cardinality(Keys) + 1)
    /\ []((pc = "loop" /\ idle = 1) => ~ENABLED LoopPass)
    /\ [](pc = "done" => (passes = 0 \/ idle = 1))
    /\ <>(pc = "done" /\ run = 2)

C10_Witness ==
    /\ pc = "done"
    /\ passes >= 3
    /\ \E u \in impacted : u \in units[u]
    /\ \E u, v \in impacted : u # v /\ v \in units[u] /\ u \in units[v]

(***************************************************************************)
(* Properties of pair_sources_with_headers                                 *)
(***************************************************************************)
Paired == pc \in {"map", "mapped"}

PairsHolding(path) == {p \in pairs : p.source = path \/ p.header = path}

\* C4: every path handed over as a source or as a header is the source or
\* the header of exactly one returned SourcePair.
C4_EveryPathInOnePair ==
    Paired => \A path \in sources \cup headers :
                  Cardinality(PairsHolding(path)) = 1

(***************************************************************************)
(* Properties of map_dependencies_from_pairs and resolve_include_path      *)
(***************************************************************************)
\* C5: the returned map has one key per pair.
C5_OneEntryPerPair ==
    pc = "mapped" =>
        /\ DOMAIN units = {name(p) : p \in pairs}
        /\ Cardinality(DOMAIN units) = Cardinality(pairs)

\* C6: an include that resolves nowhere never aborts the pass, and every
\* unit of the map holds what it would hold with that include absent from
\* the file.
C6_UnresolvedSkipped ==
    /\ pc # "aborted"
    /\ pc \in {"map", "mapped"} => units = clean_units

C6_Witness ==
    /\ pc = "mapped"
    /\ warnings # {}
    /\ Cardinality(DOMAIN units) >= 2
    /\ \A u \in DOMAIN units : units[u] # {}
    /\ \E u \in DOMAIN units : \E d \in units[u] : d \in DOMAIN units

\* What the call should have returned: the outcome for the first of
\* [current_dir] + include_dirs under which the name exists.
Candidate(call, i) ==
    normpath(join(abspath((<<call.current_dir>> \o call.include_dirs)[i]),
                  call.name))

Hits(call) ==
    {i \in 1..(Len(call.include_dirs) + 1) : exists(Candidate(call, i))}

\* C7: the call returns the candidate of the first directory, current_dir
\* before include_dirs in their order, under which the name exists, and
\* raises exactly when there is none.
C7_FirstMatchWins ==
    pc = "resolved" =>
        IF Hits(resolved) = {}
        THEN resolved.outcome.raised
        ELSE /\ ~resolved.outcome.raised
             /\ \E i \in Hits(resolved) :
                   /\ \A j \in Hits(resolved) : i <= j
                   /\ resolved.outcome.path = Candidate(resolved, i)

C7_Witness ==
    /\ pc = "resolved"
    /\ ~resolved.outcome.raised
    /\ {1, 2, 3} \subseteq Hits(resolved)
    /\ Candidate(resolved, 1) # Candidate(resolved, 2)
    /\ Candidate(resolved, 2) # Candidate(resolved, 3)

\* C9: no unit of the returned map is among its own dependencies.
C9_NoSelfDependency ==
    pc \in {"map", "mapped"} => \A u \in DOMAIN units : u \notin units[u]

=============================================================================
